---- MODULE Spec2Model ----
(***************************************************************************)
(* Class image generation of scal-sdt (gen_class_imgs.py): main's loop     *)
(* over the configured concepts and generate_class_images, which counts    *)
(* the class images on disk per size bucket, derives a target and a        *)
(* deficit per bucket and fills the deficit by calling the diffusion       *)
(* pipeline in batches, saving every image under the md5 of its raw        *)
(* pixel bytes.                                                            *)
(*                                                                         *)
(* The model starts at main's loop (line 130), prior preservation being    *)
(* enabled and the pipeline built.  The concepts' enabled flags and the    *)
(* aspect_ratio_bucket flag are the loaded configuration; what only one    *)
(* call of generate_class_images reads (num_target, batch_size, the        *)
(* instance corpus, the content of the concept's class directory) is an    *)
(* input of that call.  Concepts have distinct class directories, so dir   *)
(* holds the directory of the concept being processed.                     *)
(*                                                                         *)
(* Proportions are the exact fractions len(bucket.ids) / len(paths).  For  *)
(* corpora of at most 5 images over the catalog below, the double          *)
(* arithmetic of lines 36 and 143-145 gives the same sums and the same     *)
(* rounded targets as the exact fractions.                                 *)
(***************************************************************************)
EXTENDS Integers, Sequences, FiniteSets, TLC

\* ------------------------------------------------------------------ bounds
NumConcepts == 2
MaxTarget == 3
MaxCorpus == 2
NumPatterns == 2
MaxInitFiles == 1

\* ------------------------------------------------------------- data model
\* bucket_manager.buckets: the sizes of the catalog, in catalog order.
Catalog == << <<512, 768>>, <<768, 512>>, <<512, 512>> >>

\* (config.data.resolution, config.data.resolution)
SquareSize == <<512, 512>>

Sizes == {Catalog[j] : j \in 1..Len(Catalog)} \cup {SquareSize}

Patterns == 1..NumPatterns

NoFile == <<0, 0>>

\* Image.tobytes(): the raw RGB pixel bytes, a string of 3 * w * h bytes.  It
\* carries no width or height: <<length, content>>.
tobytes(image) == <<3 * image.size[1] * image.size[2], image.pix>>

\* hashlib.md5(...).hexdigest(), taken as collision free.
md5(bytes) == <<"md5", bytes>>

\* class_images_dir / f"{hash}.jpg"
ImageFilename(image) == md5(tobytes(image))

AllImages == [size : Sizes, pix : Patterns]

Names == {ImageFilename(im) : im \in AllImages}

\* A class directory as earlier runs leave it: every file is named by the
\* md5 of the raw bytes of an image of the file's size.
InitialDirs ==
    {d \in [Names -> Sizes \cup {NoFile}] :
        /\ \A n \in Names :
              d[n] # NoFile => \E p \in Patterns : n = ImageFilename([size |-> d[n], pix |-> p])
        /\ Cardinality({n \in Names : d[n] # NoFile}) <= MaxInitFiles}

EmptyDir == [n \in Names |-> NoFile]

RECURSIVE SumSeq(_)
SumSeq(s) == IF s = <<>> THEN 0 ELSE Head(s) + SumSeq(Tail(s))

\* len(bucket.ids) per catalog bucket, for an instance set of at most
\* MaxCorpus images; every image is put in exactly one bucket.
Corpora == {c \in [1..Len(Catalog) -> 0..MaxCorpus] : SumSeq(c) <= MaxCorpus}

\* auto_generate.num_target and batch_size; a batch_size of MaxTarget - 1 or
\* more is clamped by all but the largest deficits.
AutogenConfigs == [num_target : 0..MaxTarget, batch_size : (-1)..(MaxTarget - 1)]

\* ---------------------------------------------------------- pure functions
\* SDDatasetWithARB.get_id_size_map over SDDataset.get_images(dir): the size
\* of every image file of the directory, by file.
get_id_size_map(d) ==
    LET ids == {n \in DOMAIN d : d[n] # NoFile}
    IN  [n \in ids |-> d[n]]

\* dict.get(k, 0)
Get(dist, key) == IF key \in DOMAIN dist THEN dist[key] ELSE 0

\* cur_dist, lines 31-32
CurDist(class_id_size_map) ==
    LET present == {class_id_size_map[id] : id \in DOMAIN class_id_size_map}
    IN  [size \in present |->
            Cardinality({id \in DOMAIN class_id_size_map : class_id_size_map[id] = size})]

\* int(num / den), truncation: a target that drops the fraction.
Truncate(num, den) == num \div den

\* Python's round() of num / den >= 0: to the nearest integer, a tie to the
\* even one.
round(num, den) ==
    LET q == num \div den
        r == num % den
    IN  IF 2 * r < den THEN q
        ELSE IF 2 * r > den THEN q + 1
        ELSE IF q % 2 = 0 THEN q ELSE q + 1

\* size_dist, lines 135-144: a dict in insertion order, as the sequence of
\* its items [size, num, den] with the proportion num / den.
SizeDist(arb_enabled, corpus) ==
    IF ~arb_enabled
    THEN << [size |-> SquareSize, num |-> 1, den |-> 1] >>
    ELSE [j \in 1..Len(Catalog) |->
             [size |-> Catalog[j], num |-> corpus[j], den |-> SumSeq(corpus)]]

\* target_dist, line 36
TargetDist(sd, num_target) ==
    [j \in 1..Len(sd) |-> <<sd[j].size, round(num_target * sd[j].num, sd[j].den)>>]

\* The items of a dict in the opposite order.
Reverse(s) == [j \in 1..Len(s) |-> s[Len(s) + 1 - j]]

\* dist_diff with its buckets in the opposite order.
DistDiffReversed(td, cd) ==
    LET Short(e) == e[2] > Get(cd, e[1])
        kept == SelectSeq(td, Short)
    IN  Reverse([j \in 1..Len(kept) |-> <<kept[j][1], kept[j][2] - Get(cd, kept[j][1])>>])

\* dist_diff with the buckets that are exactly at their target kept.
DistDiffKeepsZero(td, cd) ==
    LET Short(e) == e[2] >= Get(cd, e[1])
        kept == SelectSeq(td, Short)
    IN  [j \in 1..Len(kept) |-> <<kept[j][1], kept[j][2] - Get(cd, kept[j][1])>>]

\* dist_diff, line 40
DistDiff(td, cd) ==
    LET Short(e) == e[2] > Get(cd, e[1])
        kept == SelectSeq(td, Short)
    IN  [j \in 1..Len(kept) |-> <<kept[j][1], kept[j][2] - Get(cd, kept[j][1])>>]

\* The batch size without the clamp to what is left.
ActualBsNoClamp(remaining, batch_size) == batch_size

\* actual_bs, lines 54-55
ActualBs(remaining, batch_size) ==
    IF remaining - batch_size < 0 THEN remaining ELSE batch_size

\* A guard that lets a negative batch size through.
StopBucketOnZero(bs) == bs = 0

\* line 57
StopBucket(bs) == bs <= 0

\* A progress bar that counts batches.
ProgressCountBatches(p, bs) == p + 1

\* progress.update(actual_bs), line 75
ProgressUpdate(p, bs) == p + bs

\* ------------------------------------------------------------------- state
VARIABLES
    enabled,            \* concept.class_set.auto_generate.enabled, by concept
    arb,                \* config.aspect_ratio_bucket.enabled
    pc,                 \* where the program is
    i,                  \* main: the number of concepts taken from the loop
    size_dist,          \* main: size_dist of the current concept
    autogen_config,     \* generate_class_images: autogen_config
    dir,                \* the files of class_images_dir: name -> size
    cur_class_images,   \* the directory as scanned at lines 28-29
    target_dist,        \* line 36
    dist_diff,          \* line 40
    num_new_images,     \* line 44
    k,                  \* position of the for loop of line 50 in dist_diff
    target,             \* the loop variable target of lines 50-76
    actual_bs,          \* line 54
    images,             \* the images of the last pipeline call not yet saved
    progress,           \* the count of the progress bar
    requests,           \* the pipeline calls of this call, in order
    ret,                \* the value generate_class_images returned, if any
    failed,             \* an exception was raised
    calls               \* the concepts generate_class_images was called for, in order

vars == <<enabled, arb, pc, i, size_dist, autogen_config, dir, cur_class_images,
          target_dist, dist_diff, num_new_images, k, target, actual_bs, images,
          progress, requests, ret, failed, calls>>

locals == <<size_dist, autogen_config, dir, cur_class_images, target_dist, dist_diff,
            num_new_images, k, target, actual_bs, images, progress, requests, ret>>

NoConfig == [num_target |-> 0, batch_size |-> 0]

\* The locals of a frame that does not exist.
NoFrame ==
    /\ size_dist = <<>>
    /\ autogen_config = NoConfig
    /\ dir = EmptyDir
    /\ cur_class_images = EmptyDir
    /\ target_dist = <<>>
    /\ dist_diff = <<>>
    /\ num_new_images = 0
    /\ k = 0
    /\ target = 0
    /\ actual_bs = 0
    /\ images = <<>>
    /\ progress = 0
    /\ requests = <<>>
    /\ ret = <<>>

Init ==
    /\ enabled \in [1..NumConcepts -> BOOLEAN]
    /\ arb \in BOOLEAN
    /\ pc = "loop"
    /\ i = 0
    /\ failed = FALSE
    /\ calls = <<>>
    /\ NoFrame

\* An exception that leaves the retry to the loop it was raised in.
RaiseAndRetry == "while"

\* An exception nothing catches (no try in lines 22-76 nor 130-147) ends main.
Raise == "aborted"

\* ------------------------------------------------------------------ main
\* A skip that leaves the loop.
SkipConceptReturn ==
    /\ pc = "loop"
    /\ i < NumConcepts
    /\ ~enabled[i + 1]
    /\ i' = i + 1
    /\ pc' = "done"
    /\ UNCHANGED <<calls, enabled, arb, failed, locals>>

\* lines 130-133: warning, continue
SkipConcept ==
    /\ pc = "loop"
    /\ i < NumConcepts
    /\ ~enabled[i + 1]
    /\ i' = i + 1
    /\ pc' = "loop"
    /\ UNCHANGED <<calls, enabled, arb, failed, locals>>

\* lines 130-145: the size distribution of an enabled concept
ComputeSizeDist ==
    /\ pc = "loop"
    /\ i < NumConcepts
    /\ enabled[i + 1]
    /\ i' = i + 1
    /\ \E corpus \in Corpora :
          /\ arb => SumSeq(corpus) > 0
          /\ size_dist' = SizeDist(arb, corpus)
    /\ pc' = "call"
    /\ UNCHANGED <<calls, enabled, arb, failed, autogen_config, dir, cur_class_images,
                   target_dist, dist_diff, num_new_images, k, target, actual_bs,
                   images, progress, requests, ret>>

\* line 143 with an empty instance set: ZeroDivisionError
EmptyCorpus ==
    /\ pc = "loop"
    /\ i < NumConcepts
    /\ enabled[i + 1]
    /\ arb
    /\ i' = i + 1
    /\ failed' = TRUE
    /\ pc' = Raise
    /\ UNCHANGED <<calls, enabled, arb, locals>>

\* the loop of line 130 is exhausted
Finish ==
    /\ pc = "loop"
    /\ i = NumConcepts
    /\ pc' = "done"
    /\ UNCHANGED <<calls, enabled, arb, i, failed, locals>>

\* ------------------------------------------------- generate_class_images
\* lines 22-45: the call of line 147 binds the concept's settings, scans its
\* class directory and plans the deficit
PlanWith(configs, dirs) ==
    /\ pc = "call"
    /\ \E cfg \in configs, d \in dirs :
          LET cd == CurDist(get_id_size_map(d))
              td == TargetDist(size_dist, cfg.num_target)
              dd == DistDiff(td, cd)
          IN  /\ autogen_config' = cfg
              /\ dir' = d
              /\ cur_class_images' = d
              /\ target_dist' = td
              /\ dist_diff' = dd
              /\ num_new_images' = SumSeq([j \in 1..Len(dd) |-> dd[j][2]])
    /\ calls' = Append(calls, i)
    /\ k' = 1
    /\ progress' = 0
    /\ pc' = "for"
    /\ UNCHANGED <<enabled, arb, i, failed, size_dist, target, actual_bs, images,
                   requests, ret>>

Plan == PlanWith(AutogenConfigs, InitialDirs)

\* lines 50-51: the next bucket of dist_diff
NextBucket ==
    /\ pc = "for"
    /\ k <= Len(dist_diff)
    /\ target' = dist_diff[k][2]
    /\ pc' = "while"
    /\ UNCHANGED <<calls, enabled, arb, i, failed, size_dist, autogen_config, dir,
                   cur_class_images, target_dist, dist_diff, num_new_images, k,
                   actual_bs, images, progress, requests, ret>>

\* lines 54-58: the batch size is not positive, break
Break ==
    /\ pc = "while"
    /\ StopBucket(ActualBs(target, autogen_config.batch_size))
    /\ actual_bs' = ActualBs(target, autogen_config.batch_size)
    /\ k' = k + 1
    /\ pc' = "for"
    /\ UNCHANGED <<calls, enabled, arb, i, failed, size_dist, autogen_config, dir,
                   cur_class_images, target_dist, dist_diff, num_new_images,
                   target, images, progress, requests, ret>>

\* The images a pipeline call for n images of a size returns.
PipelineOutputs(size, n) ==
    IF n <= 0 THEN {<<>>}
    ELSE {[j \in 1..n |-> [size |-> size, pix |-> f[j]]] : f \in [1..n -> Patterns]}

\* lines 54-68: the pipeline is called and returns actual_bs images.  The
\* targets of a call sum to at most MaxTarget + 1, so the cap on the length
\* of requests only stops a loop that no longer counts down.
CallPipeline ==
    /\ pc = "while"
    /\ ~StopBucket(ActualBs(target, autogen_config.batch_size))
    /\ Len(requests) <= MaxTarget + 1
    /\ LET bs == ActualBs(target, autogen_config.batch_size)
       IN  /\ actual_bs' = bs
           /\ requests' = Append(requests,
                 [size |-> dist_diff[k][1], n |-> bs, saved |-> 0])
           /\ images' \in PipelineOutputs(dist_diff[k][1], bs)
    /\ pc' = "save"
    /\ UNCHANGED <<calls, enabled, arb, i, failed, size_dist, autogen_config, dir,
                   cur_class_images, target_dist, dist_diff, num_new_images, k,
                   target, progress, ret>>

\* lines 60-68: the pipeline call raises
PipelineFails ==
    /\ pc = "while"
    /\ ~StopBucket(ActualBs(target, autogen_config.batch_size))
    /\ Len(requests) <= MaxTarget + 1
    /\ LET bs == ActualBs(target, autogen_config.batch_size)
       IN  /\ actual_bs' = bs
           /\ requests' = Append(requests,
                 [size |-> dist_diff[k][1], n |-> bs, saved |-> 0])
    /\ failed' = TRUE
    /\ pc' = Raise
    /\ UNCHANGED <<calls, enabled, arb, i, size_dist, autogen_config, dir,
                   cur_class_images, target_dist, dist_diff, num_new_images, k,
                   target, images, progress, ret>>

\* lines 70-73: the next image is saved under the md5 of its raw bytes
SaveImage ==
    /\ pc = "save"
    /\ images # <<>>
    /\ dir' = [dir EXCEPT ![ImageFilename(Head(images))] = Head(images).size]
    /\ images' = Tail(images)
    /\ requests' = [requests EXCEPT ![Len(requests)].saved = @ + 1]
    /\ UNCHANGED <<calls, enabled, arb, pc, i, failed, size_dist, autogen_config,
                   cur_class_images, target_dist, dist_diff, num_new_images, k,
                   target, actual_bs, progress, ret>>

\* line 73: image.save raises
SaveFails ==
    /\ pc = "save"
    /\ images # <<>>
    /\ failed' = TRUE
    /\ pc' = Raise
    /\ UNCHANGED <<calls, enabled, arb, i, size_dist, autogen_config, dir,
                   cur_class_images, target_dist, dist_diff, num_new_images, k,
                   target, actual_bs, images, progress, requests, ret>>

\* lines 75-76: the batch is accounted for
BatchDone ==
    /\ pc = "save"
    /\ images = <<>>
    /\ progress' = ProgressUpdate(progress, actual_bs)
    /\ target' = target - actual_bs
    /\ pc' = "while"
    /\ UNCHANGED <<calls, enabled, arb, i, failed, size_dist, autogen_config, dir,
                   cur_class_images, target_dist, dist_diff, num_new_images, k,
                   actual_bs, images, requests, ret>>

\* line 76, end of the function: the for loop is exhausted and the function
\* falls off its end, which returns None (the empty ret).
Return ==
    /\ pc = "for"
    /\ k > Len(dist_diff)
    /\ ret' = <<>>
    /\ pc' = "returned"
    /\ UNCHANGED <<calls, enabled, arb, i, failed, size_dist, autogen_config, dir,
                   cur_class_images, target_dist, dist_diff, num_new_images, k,
                   target, actual_bs, images, progress, requests>>

\* line 147 is done: the frame of the call is gone, main's loop goes on
Continue ==
    /\ pc = "returned"
    /\ pc' = "loop"
    /\ size_dist' = <<>>
    /\ autogen_config' = NoConfig
    /\ dir' = EmptyDir
    /\ cur_class_images' = EmptyDir
    /\ target_dist' = <<>>
    /\ dist_diff' = <<>>
    /\ num_new_images' = 0
    /\ k' = 0
    /\ target' = 0
    /\ actual_bs' = 0
    /\ images' = <<>>
    /\ progress' = 0
    /\ requests' = <<>>
    /\ ret' = <<>>
    /\ UNCHANGED <<calls, enabled, arb, i, failed>>

Next ==
    \/ SkipConcept
    \/ ComputeSizeDist
    \/ EmptyCorpus
    \/ Finish
    \/ Plan
    \/ NextBucket
    \/ Break
    \/ CallPipeline
    \/ PipelineFails
    \/ SaveImage
    \/ SaveFails
    \/ BatchDone
    \/ Return
    \/ Continue

Spec == Init /\ [][Next]_vars

\* A configuration whose last concept alone is enabled: one call of
\* generate_class_images in the run.
InitOneCall ==
    /\ Init
    /\ enabled = [c \in 1..NumConcepts |-> c = NumConcepts]

\* The program runs on as long as it has a step to take.
FairSpec == InitOneCall /\ [][Next]_vars /\ WF_vars(Next)

\* ------------------------------------------------ planning on wider inputs
WideCorpus == 5
WideTarget == 8

WideCorpora ==
    {c \in [1..Len(Catalog) -> 0..WideCorpus] : SumSeq(c) \in 1..WideCorpus}

WideConfigs == [num_target : 0..WideTarget, batch_size : {1}]

\* main has computed size_dist for some instance corpus and calls line 147.
InitWide ==
    /\ enabled = [c \in 1..NumConcepts |-> TRUE]
    /\ arb = TRUE
    /\ pc = "call"
    /\ i = 1
    /\ failed = FALSE
    /\ calls = <<>>
    /\ size_dist \in {SizeDist(TRUE, c) : c \in WideCorpora}
    /\ autogen_config = NoConfig
    /\ dir = EmptyDir
    /\ cur_class_images = EmptyDir
    /\ target_dist = <<>>
    /\ dist_diff = <<>>
    /\ num_new_images = 0
    /\ k = 0
    /\ target = 0
    /\ actual_bs = 0
    /\ images = <<>>
    /\ progress = 0
    /\ requests = <<>>
    /\ ret = <<>>

PlanWide == PlanWith(WideConfigs, {EmptyDir})

SpecWide == InitWide /\ [][PlanWide]_vars

\* ------------------------------------------------------------ vocabulary
\* generate_class_images has planned: its frame holds target_dist.
Planned == target_dist # <<>>

\* The number of files of a size in a directory.
CountOf(d, size) == Cardinality({n \in DOMAIN d : d[n] = size})

\* The files of a size in a directory.
FilesOf(d, size) == {n \in DOMAIN d : d[n] = size}

\* The keys of a dict given as the sequence of its items.
Keys(items) == {items[j][1] : j \in 1..Len(items)}

\* The value of a key of a dict given as the sequence of its items, 0 when
\* the key is absent.
ValueOf(items, key) ==
    IF key \in Keys(items)
    THEN (CHOOSE e \in {items[j] : j \in 1..Len(items)} : e[1] = key)[2]
    ELSE 0

\* The position of a size in size_dist.
PosOf(size) == CHOOSE j \in 1..Len(size_dist) : size_dist[j].size = size

\* The requests of this call for a size, in order.
RequestsFor(size) ==
    LET Is(r) == r.size = size
    IN  SelectSeq(requests, Is)

\* The sizes of a sequence of requests.
Counts(rs) == [x \in 1..Len(rs) |-> rs[x].n]

Abs(x) == IF x < 0 THEN -x ELSE x

Max(a, b) == IF a > b THEN a ELSE b

\* The enabled concepts among the first n, in configuration order.
EnabledUpTo(n) ==
    LET Is(c) == enabled[c]
    IN  SelectSeq([c \in 1..n |-> c], Is)

\* ------------------------------------------------------------------ claims
\* C1: in a call with a batch cap m >= 1, every request is for 1..m images
\* and the requests for a bucket never sum to more than its deficit d >= 1;
\* once the loop has left the bucket, they are exactly ceil(d / m), sum to d,
\* all but the last are m and the last is d mod m, or m when m divides d.
C1_TelescopingBatches ==
    (Planned /\ autogen_config.batch_size >= 1) =>
        \A j \in 1..Len(dist_diff) :
            LET d == dist_diff[j][2]
                m == autogen_config.batch_size
                rs == RequestsFor(dist_diff[j][1])
            IN  /\ d >= 1
                /\ SumSeq(Counts(rs)) <= d
                /\ \A x \in 1..Len(rs) : rs[x].n >= 1 /\ rs[x].n <= m
                /\ \A x \in 1..(Len(rs) - 1) : rs[x].n = m
                /\ (j < k /\ ~failed) =>
                      /\ Len(rs) = (d + m - 1) \div m
                      /\ SumSeq(Counts(rs)) = d
                      /\ rs[Len(rs)].n = (IF d % m = 0 THEN m ELSE d % m)

\* A call returned after a deficit of 3 was filled with batches of at most 2.
C1_Witness ==
    /\ pc = "returned"
    /\ autogen_config.batch_size = 2
    /\ \E j \in 1..Len(dist_diff) : dist_diff[j][2] = 3

\* C2: a bucket of the proportion map is a key of the deficit map iff its
\* target exceeds the number of its files in the scanned directory; its
\* deficit is then the difference, at least 1; a bucket already at or above
\* its target is no key and gets no request.
C2_DeficitDefinition ==
    Planned =>
        \A j \in 1..Len(size_dist) :
            LET b == size_dist[j].size
                t == target_dist[j][2]
                c == CountOf(cur_class_images, b)
            IN  /\ target_dist[j][1] = b
                /\ (b \in Keys(dist_diff)) <=> (t > c)
                /\ (b \in Keys(dist_diff)) =>
                      (ValueOf(dist_diff, b) = t - c /\ ValueOf(dist_diff, b) >= 1)
                /\ (c >= t) => RequestsFor(b) = <<>>

\* A call returned that had requests to make for one bucket while another
\* bucket, with a target of at least 1, was already at its target.
C2_Witness ==
    /\ pc = "returned"
    /\ requests # <<>>
    /\ \E j \in 1..Len(size_dist) :
          /\ target_dist[j][2] >= 1
          /\ CountOf(cur_class_images, size_dist[j].size) >= target_dist[j][2]

\* C3: once a pipeline call or a save has raised, no step issues a request
\* or changes a file: nothing is retried, no later bucket or concept is
\* served, and what was saved stays.
C3_FailureAborts ==
    [][failed => (requests' = requests /\ dir' = dir /\ calls' = calls /\ failed')]_vars

\* The second pipeline call of a bucket raised after the images of the first
\* were saved, with a concept still to come.
C3_Witness ==
    /\ failed
    /\ i < NumConcepts
    /\ Len(requests) = 2
    /\ requests[1].saved = requests[1].n
    /\ requests[2].saved = 0
    /\ target > actual_bs

\* C4: when a run has ended for a concept (its call returned, or the run
\* aborted in it), the deficit that a new run with the same proportions and
\* num_target computes from the directory is, for every bucket, at most the
\* deficit this run computed.
C4_RerunDeficitNeverGrows ==
    (Planned /\ pc \in {"returned", "aborted"}) =>
        LET again == DistDiff(TargetDist(size_dist, autogen_config.num_target),
                              CurDist(get_id_size_map(dir)))
        IN  \A j \in 1..Len(size_dist) :
                ValueOf(again, size_dist[j].size) <= ValueOf(dist_diff, size_dist[j].size)

\* C5 as stated: the call returns the sum of the batch sizes it requested.
C5_ReturnsTotal ==
    pc = "returned" => ret = <<SumSeq(Counts(requests))>>

\* C5 as amended: the call returns nothing; the sum of the batch sizes it
\* requested is the count it reported to the progress bar.
C5_ReportsTotalAsProgress ==
    pc = "returned" => (ret = <<>> /\ progress = SumSeq(Counts(requests)))

\* A call returned after two or more requests for three or more images.
C5_Witness ==
    /\ pc = "returned"
    /\ Len(requests) >= 2
    /\ progress >= 3

\* C6: the targets of a call sum to num_target within half the number of
\* buckets of the proportion map.
C6_TargetSumBound ==
    Planned =>
        2 * Abs(SumSeq([j \in 1..Len(target_dist) |-> target_dist[j][2]])
                - autogen_config.num_target) <= Len(size_dist)

\* A plan in which two buckets sit exactly halfway between two integers and
\* the targets do not sum to num_target.
C6_Witness ==
    /\ Planned
    /\ Cardinality({j \in 1..Len(size_dist) :
          2 * ((autogen_config.num_target * size_dist[j].num) % size_dist[j].den)
             = size_dist[j].den}) >= 2
    /\ SumSeq([j \in 1..Len(target_dist) |-> target_dist[j][2]])
          # autogen_config.num_target

\* C7: the step main takes at a disabled concept goes on to the next concept
\* without a request, a file change, a call or an exception; and as long as
\* nothing has raised, generate_class_images has been called for exactly the
\* enabled concepts passed so far, in configuration order.
C7_DisabledConceptSkipped ==
    /\ [][(pc = "loop" /\ i < NumConcepts /\ ~enabled[i + 1]) =>
             /\ pc' = "loop"
             /\ i' = i + 1
             /\ requests' = requests
             /\ dir' = dir
             /\ calls' = calls
             /\ ~failed']_vars
    /\ [](~failed =>
             calls = EnabledUpTo(IF pc = "call" THEN i - 1 ELSE i))

\* The call for an enabled concept returned, requests made, after a disabled
\* concept was skipped.
C7_Witness ==
    /\ pc = "returned"
    /\ requests # <<>>
    /\ \E c \in 1..(i - 1) : ~enabled[c]

\* C8: in a call with batch_size <= 0 every computed batch size is <= 0, no
\* request is issued and no file is written; and such a call, once it has
\* planned, returns with every bucket of the deficit map visited.
C8_NonPositiveBatchStops ==
    /\ []((Planned /\ autogen_config.batch_size <= 0) =>
             /\ actual_bs <= 0
             /\ requests = <<>>
             /\ dir = cur_class_images
             /\ pc # "save")
    /\ (Planned /\ pc = "for" /\ k = 1 /\ autogen_config.batch_size <= 0)
          ~> (pc = "returned" /\ k = Len(dist_diff) + 1)

\* A call with a negative batch size returned after visiting two buckets
\* with a positive deficit.
C8_Witness ==
    /\ pc = "returned"
    /\ autogen_config.batch_size < 0
    /\ Len(dist_diff) >= 2
    /\ k = Len(dist_diff) + 1

\* C9: the requests of a call follow the order of the buckets in size_dist;
\* every request but the last has all its images saved; the last is for the
\* bucket the for loop is at, and while it is being saved the images saved
\* and those still to save make up its batch.
C9_BucketOrder ==
    Planned =>
        /\ \A a \in 1..Len(requests) : \A b \in a..Len(requests) :
              PosOf(requests[a].size) <= PosOf(requests[b].size)
        /\ \A a \in 1..(Len(requests) - 1) : requests[a].saved = requests[a].n
        /\ (pc = "save") =>
              LET last == requests[Len(requests)]
              IN  /\ last.size = dist_diff[k][1]
                  /\ last.saved + Len(images) = last.n
                  /\ \A x \in 1..Len(images) : images[x].size = last.size

\* A call made requests for two different buckets, three or more in all.
C9_Witness ==
    /\ pc = "returned"
    /\ Len(requests) >= 3
    /\ requests[1].size # requests[Len(requests)].size

\* C10: during a call no bucket of the proportion map holds more files than
\* the larger of its count at the scan and its target; no file of the scan
\* is gone; and a bucket outside the proportion map, or above its target at
\* the scan, keeps exactly its files.
C10_NoOvershootNoTrim ==
    Planned =>
        /\ \A j \in 1..Len(size_dist) :
              CountOf(dir, size_dist[j].size)
                 <= Max(CountOf(cur_class_images, size_dist[j].size), target_dist[j][2])
        /\ \A n \in Names : cur_class_images[n] # NoFile => dir[n] # NoFile
        /\ \A s \in Sizes :
              (\/ s \notin Keys(target_dist)
               \/ CountOf(cur_class_images, s) > ValueOf(target_dist, s))
                 => FilesOf(dir, s) = FilesOf(cur_class_images, s)

====
